---- MODULE Spec2Model ----
(***************************************************************************)
(* Model of src/object_detector.js: the YOLOv8 post-processing             *)
(* (process_output, iou, union, intersection) and the request pipeline     *)
(* (detect_objects_on_image and the /detect handler).                      *)
(*                                                                         *)
(* Numbers.  JavaScript numbers are modelled by exact rationals:           *)
(*  - entries of the raw output that hold xc, yc, w, h are integers        *)
(*    (network pixels);                                                    *)
(*  - entries that hold class scores are integers counting tenths, so the  *)
(*    literal 0.5 of the code is 5;                                        *)
(*  - a box coordinate (xc - w/2) / 640 * img_width is the rational        *)
(*    (2*xc - w) * img_width / (2*640); every coordinate has the same      *)
(*    denominator CoordDen and a box stores the numerators;                *)
(*  - the result of a division is a record that keeps NaN and the          *)
(*    infinities of IEEE arithmetic apart from the finite quotients.       *)
(***************************************************************************)
EXTENDS Integers, Sequences, FiniteSets, TLC

\* Number of cells of the raw output (8400 in the code), scaled down.
NumCells == 3

\* Number of classes scanned per cell (80 in the code), scaled down.
NumClasses == 2

\* The network input size the coordinates are divided by.
InputSize == 640

\* The literal 0.5 of the confidence test, in tenths.
ProbThreshold == 5

\* The literal 0.7 of the suppression filter, in tenths.
IouThreshold == 7

\* Common denominator of the box coordinates: (xc -+ w/2)/640 = (2xc -+ w)/1280.
CoordDen == 2 * InputSize

Cells == 0 .. (NumCells - 1)

Classes == 0 .. (NumClasses - 1)

\* YOLOv8 class labels, indexed by class id (0-based in the code).
yolo_classes ==
    << "person", "bicycle", "car", "motorcycle", "airplane", "bus", "train",
       "truck", "boat", "traffic light", "fire hydrant", "stop sign",
       "parking meter", "bench", "bird", "cat", "dog", "horse", "sheep", "cow",
       "elephant", "bear", "zebra", "giraffe", "backpack", "umbrella",
       "handbag", "tie", "suitcase", "frisbee", "skis", "snowboard",
       "sports ball", "kite", "baseball bat", "baseball glove", "skateboard",
       "surfboard", "tennis racket", "bottle", "wine glass", "cup", "fork",
       "knife", "spoon", "bowl", "banana", "apple", "sandwich", "orange",
       "broccoli", "carrot", "hot dog", "pizza", "donut", "cake", "chair",
       "couch", "potted plant", "bed", "dining table", "toilet", "tv",
       "laptop", "mouse", "remote", "keyboard", "cell phone", "microwave",
       "oven", "toaster", "sink", "refrigerator", "book", "clock", "vase",
       "scissors", "teddy bear", "hair drier", "toothbrush" >>

(***************************************************************************)
(* IEEE division and comparison, as far as iou() uses them.                *)
(***************************************************************************)

\* a / b of two numbers: 0/0 is NaN, x/0 is an infinity, otherwise the
\* quotient (0/negative is -0, which compares equal to 0).
Divide(a, b) ==
    IF b = 0
    THEN IF a = 0 THEN [kind |-> "NaN", num |-> 0, den |-> 0]
         ELSE [kind |-> "Infinity", num |-> (IF a > 0 THEN 1 ELSE -1), den |-> 0]
    ELSE [kind |-> "finite", num |-> a, den |-> b]

\* q < n/10 in IEEE arithmetic: false when q is NaN.
LessThanTenths(q, n) ==
    CASE q.kind = "NaN" -> FALSE
      [] q.kind = "Infinity" -> q.num < 0
      [] OTHER -> IF q.den > 0
                  THEN q.num * 10 < n * q.den
                  ELSE q.num * 10 > n * q.den

\* q >= n/10 in IEEE arithmetic: false when q is NaN.
AtLeastTenths(q, n) ==
    CASE q.kind = "NaN" -> FALSE
      [] q.kind = "Infinity" -> q.num > 0
      [] OTHER -> IF q.den > 0
                  THEN q.num * 10 >= n * q.den
                  ELSE q.num * 10 <= n * q.den

\* q is the number 0 (or -0).
IsZero(q) == q.kind = "finite" /\ q.num = 0

Max(a, b) == IF a > b THEN a ELSE b

Min(a, b) == IF a < b THEN a ELSE b

(***************************************************************************)
(* Geometry helpers.  A box is <<x1, y1, x2, y2, label, prob>>.            *)
(***************************************************************************)

intersection(box1, box2) ==
    LET x11 == box1[1]
        y11 == box1[2]
        x12 == box1[3]
        y12 == box1[4]
        x21 == box2[1]
        y21 == box2[2]
        x22 == box2[3]
        y22 == box2[4]
        xi1 == Max(x11, x21)
        yi1 == Max(y11, y21)
        xi2 == Min(x12, x22)
        yi2 == Min(y12, y22)
        inter_width == Max(xi2 - xi1, 0)
        inter_height == Max(yi2 - yi1, 0)
    IN  inter_width * inter_height

union(box1, box2, intersect) ==
    LET area1 == (box1[3] - box1[1]) * (box1[4] - box1[2])
        area2 == (box2[3] - box2[1]) * (box2[4] - box2[2])
    IN  area1 + area2 - intersect

iou(box1, box2) ==
    LET intersect == intersection(box1, box2)
        union_area == union(box1, box2, intersect)
    IN  Divide(intersect, union_area)

(***************************************************************************)
(* process_output: decoding of the raw output (lines 95-113).              *)
(* The raw output is a flat array indexed from 0.                          *)
(***************************************************************************)

\* A reduce that lets an equal score replace the accumulator (>= for >).
RECURSIVE ReduceMaxLast(_, _, _, _)
ReduceMaxLast(out, index, col, accum) ==
    IF col >= NumClasses
    THEN accum
    ELSE LET item == <<col, out[NumCells * (col + 4) + index]>>
         IN  ReduceMaxLast(out, index, col + 1,
                           IF item[2] >= accum[2] THEN item ELSE accum)

\* The reduce of line 99, from column col on: a strictly greater score
\* replaces the accumulator, which starts as [0, 0].
RECURSIVE ReduceMax(_, _, _, _)
ReduceMax(out, index, col, accum) ==
    IF col >= NumClasses
    THEN accum
    ELSE LET item == <<col, out[NumCells * (col + 4) + index]>>
         IN  ReduceMax(out, index, col + 1,
                       IF item[2] > accum[2] THEN item ELSE accum)

\* [class_id, prob] of a cell (lines 97-99).
BestClass(out, index) == ReduceMax(out, index, 0, <<0, 0>>)

\* The test with 0.4 for 0.5.
QualifiesLow(prob) == ~(prob < 4)

\* The test of line 100, negated: the cell is not skipped.
Qualifies(prob) == ~(prob < ProbThreshold)

\* The box pushed for a cell that is not skipped (lines 103-112).
DecodeBox(out, index, width, height) ==
    LET best == BestClass(out, index)
        label == yolo_classes[best[1] + 1]
        xc == out[index]
        yc == out[NumCells + index]
        w == out[2 * NumCells + index]
        h == out[3 * NumCells + index]
        x1 == (2 * xc - w) * width
        y1 == (2 * yc - h) * height
        x2 == (2 * xc + w) * width
        y2 == (2 * yc + h) * height
    IN  <<x1, y1, x2, y2, label, best[2]>>

\* The for loop of lines 96-113, from index on.
RECURSIVE DecodeFrom(_, _, _, _, _)
DecodeFrom(out, width, height, index, acc) ==
    IF index >= NumCells
    THEN acc
    ELSE DecodeFrom(out, width, height, index + 1,
                    IF Qualifies(BestClass(out, index)[2])
                    THEN Append(acc, DecodeBox(out, index, width, height))
                    ELSE acc)

(***************************************************************************)
(* process_output: sort and suppression (lines 115-121).                   *)
(***************************************************************************)

\* The comparator with its operands exchanged: ascending order.
CompareAscending(box1, box2) == box1[6] - box2[6]

\* The comparator of line 115: negative when box1 goes first.
Compare(box1, box2) == box2[6] - box1[6]

\* An insertion that puts a box before the boxes it ties with: a sort that
\* is not stable.
RECURSIVE InsertSortedUnstable(_, _)
InsertSortedUnstable(sorted, box) ==
    IF sorted = <<>>
    THEN <<box>>
    ELSE IF box[6] - Head(sorted)[6] < 0
         THEN <<Head(sorted)>> \o InsertSortedUnstable(Tail(sorted), box)
         ELSE <<box>> \o sorted

\* Array.prototype.sort is stable: a box goes after every box that the
\* comparator does not put behind it.
RECURSIVE InsertSorted(_, _)
InsertSorted(sorted, box) ==
    IF sorted = <<>>
    THEN <<box>>
    ELSE IF Compare(Head(sorted), box) <= 0
         THEN <<Head(sorted)>> \o InsertSorted(Tail(sorted), box)
         ELSE <<box>> \o sorted

RECURSIVE SortBoxes(_)
SortBoxes(bs) ==
    IF bs = <<>>
    THEN <<>>
    ELSE InsertSorted(SortBoxes(SubSeq(bs, 1, Len(bs) - 1)), bs[Len(bs)])

\* The filter with 0.9 for 0.7.
KeepsLoose(head, box) == LessThanTenths(iou(head, box), 9)

\* The predicate of the filter of line 119.
Keeps(head, box) == LessThanTenths(iou(head, box), IouThreshold)

\* boxes.filter(box => iou(boxes[0], box) < 0.7), order kept.
RECURSIVE FilterBoxes(_, _)
FilterBoxes(head, bs) ==
    IF bs = <<>>
    THEN <<>>
    ELSE IF Keeps(head, Head(bs))
         THEN <<Head(bs)>> \o FilterBoxes(head, Tail(bs))
         ELSE FilterBoxes(head, Tail(bs))

\* The while loop of lines 117-120 run to its end.  An iteration that
\* removes nothing leaves boxes as it was, so the loop either empties boxes
\* within Len(boxes) iterations or never ends; fuel counts the iterations.
RECURSIVE SuppressFrom(_, _, _)
SuppressFrom(bs, res, fuel) ==
    IF bs = <<>>
    THEN [returns |-> TRUE, value |-> res]
    ELSE IF fuel = 0
         THEN [returns |-> FALSE, value |-> <<>>]
         ELSE SuppressFrom(FilterBoxes(bs[1], bs), Append(res, bs[1]), fuel - 1)

\* Lines 115-121 on a list of boxes.
Suppress(bs) == SuppressFrom(SortBoxes(bs), <<>>, Len(bs))

\* process_output as a whole: what it returns, or that it does not return.
ProcessOutput(out, width, height) ==
    Suppress(DecodeFrom(out, width, height, 0, <<>>))

(***************************************************************************)
(* The request pipeline: prepare_input, run_model, the /detect handler.    *)
(***************************************************************************)

\* The loop of lines 64-70: interleaved bytes to planar values.  A value
\* pixels[i] / 255.0 is kept as its numerator.
RECURSIVE Channel(_, _)
Channel(pixels, offset) ==
    IF offset > Len(pixels)
    THEN <<>>
    ELSE <<pixels[offset]>> \o Channel(pixels, offset + 3)

PlanarInput(pixels) ==
    LET red == Channel(pixels, 1)
        green == Channel(pixels, 2)
        blue == Channel(pixels, 3)
    IN  red \o green \o blue

\* The flat array [1, 4+C, N] of a choice of the cells' values.
Flatten(cell) ==
    [k \in 0 .. ((4 + NumClasses) * NumCells - 1) |->
        LET row == k \div NumCells
            index == k % NumCells
        IN  IF row < 4 THEN cell[index].geom[row + 1]
            ELSE cell[index].scores[row - 4]]

\* outputs["output0"].data of model.run (lines 82-83).  The network is outside
\* the repository; what the pipeline relies on is that the same tensor gives
\* the same raw output.  This stand-in reads the first pixel from the planar
\* tensor: red shifts the boxes, green picks the class, blue inverts a box.
Network(input) ==
    LET n == Len(input) \div 3
        red == input[1]
        green == input[n + 1]
        blue == input[2 * n + 1]
    IN  Flatten([index \in Cells |->
            [geom |-> << (red + index) % 3, 5,
                         IF blue = 1 /\ index = 0 THEN -10 ELSE 10, 10 >>,
             scores |-> [c \in Classes |->
                            IF c = green % NumClasses
                            THEN 9 - 4 * (index % 2)
                            ELSE 0]]])

\* Locals declared without const at module level: one record for all calls.
FrameShared(r) == 1

\* Each call of an async function has its own activation record: the
\* const declarations of lines 44-45 and 57-71 are local to the call.
Frame(r) == r

(***************************************************************************)
(* State.                                                                  *)
(***************************************************************************)
VARIABLES
    output,      \* process_output: the raw output passed in
    img_width,   \* process_output: width of the original image
    img_height,  \* process_output: height of the original image
    pc,          \* process_output: "decode", "while", "done" ("off": no call)
    boxes,       \* process_output: the local boxes
    result,      \* process_output: the local result
    request,     \* request -> req.file.buffer, NoImage before the upload
    at,          \* request -> the await its handler is suspended at
    frames,      \* activation record -> the locals of the pipeline
    response     \* request -> what res.json was given

procVars == <<output, img_width, img_height, pc, boxes, result>>

callVars == <<request, at, frames, response>>

vars == <<output, img_width, img_height, pc, boxes, result,
          request, at, frames, response>>

(***************************************************************************)
(* One call of process_output, step by step.                               *)
(***************************************************************************)

\* A loop that does not end is followed for this many iterations.
MaxIterations == NumCells + 2

\* Lines 95-116: decode every cell, sort, start with an empty result.
Decode ==
    /\ pc = "decode"
    /\ boxes' = SortBoxes(DecodeFrom(output, img_width, img_height, 0, <<>>))
    /\ result' = <<>>
    /\ pc' = "while"
    /\ UNCHANGED <<output, img_width, img_height>>
    /\ UNCHANGED callVars

\* Lines 117-120: one iteration of the while loop.
Iterate ==
    /\ pc = "while"
    /\ Len(boxes) > 0
    /\ Len(result) < MaxIterations
    /\ result' = Append(result, boxes[1])
    /\ boxes' = FilterBoxes(boxes[1], boxes)
    /\ UNCHANGED <<output, img_width, img_height, pc>>
    /\ UNCHANGED callVars

\* Line 121: the loop condition fails and the result is returned.
Return ==
    /\ pc = "while"
    /\ Len(boxes) = 0
    /\ pc' = "done"
    /\ UNCHANGED <<output, img_width, img_height, boxes, result>>
    /\ UNCHANGED callVars

Next == Decode \/ Iterate \/ Return

(***************************************************************************)
(* Concurrent requests.  Node runs one handler at a time and switches      *)
(* handlers only at an await; process_output has none and runs through.    *)
(***************************************************************************)

\* Number of requests in flight.
NumRequests == 2

Requests == 1 .. NumRequests

NoImage == [width |-> 0, height |-> 0, pixels |-> <<>>]

\* Uploaded images after decoding: original size and the resized raw pixels,
\* R, G, B of one pixel after the other (two pixels stand for 640 x 640).
Images ==
    { [width |-> 2, height |-> 1, pixels |-> <<0, 0, 0, 255, 255, 255>>],
      [width |-> 1, height |-> 3, pixels |-> <<1, 1, 0, 255, 255, 255>>],
      [width |-> 2, height |-> 2, pixels |-> <<2, 0, 0, 255, 255, 255>>],
      [width |-> 3, height |-> 1, pixels |-> <<0, 1, 1, 255, 255, 255>>] }

NoLocals ==
    [buf |-> NoImage, img_width |-> 0, img_height |-> 0,
     input |-> <<>>, output |-> <<>>, boxes |-> <<>>]

\* A handler whose process_output never returns keeps the only thread.
Blocked == \E r \in Requests : at[r] = "hung"

\* Lines 27-28, 43-44, 56-58: the upload arrives; up to await img.metadata().
Post(r) ==
    /\ ~Blocked
    /\ at[r] = "idle"
    /\ \E image \in Images :
         /\ request' = [request EXCEPT ![r] = image]
         /\ frames' = [frames EXCEPT ![Frame(r)].buf = image]
    /\ at' = [at EXCEPT ![r] = "metadata"]
    /\ UNCHANGED response
    /\ UNCHANGED procVars

\* Lines 58-63: the metadata is there; up to await ... toBuffer().
Metadata(r) ==
    /\ ~Blocked
    /\ at[r] = "metadata"
    /\ frames' = [frames EXCEPT ![Frame(r)].img_width = frames[Frame(r)].buf.width,
                                ![Frame(r)].img_height = frames[Frame(r)].buf.height]
    /\ at' = [at EXCEPT ![r] = "toBuffer"]
    /\ UNCHANGED <<request, response>>
    /\ UNCHANGED procVars

\* Lines 60-71, 44-45, 79-80: the pixels are there; prepare_input returns
\* and run_model starts, up to await ort.InferenceSession.create().
Prepare(r) ==
    /\ ~Blocked
    /\ at[r] = "toBuffer"
    /\ frames' = [frames EXCEPT ![Frame(r)].input =
                                    PlanarInput(frames[Frame(r)].buf.pixels)]
    /\ at' = [at EXCEPT ![r] = "create"]
    /\ UNCHANGED <<request, response>>
    /\ UNCHANGED procVars

\* Lines 80-82: the session is there; up to await model.run().
Create(r) ==
    /\ ~Blocked
    /\ at[r] = "create"
    /\ at' = [at EXCEPT ![r] = "run"]
    /\ UNCHANGED <<request, frames, response>>
    /\ UNCHANGED procVars

\* Lines 82-83, 45: the network has run; run_model returns its raw output.
Run(r) ==
    /\ ~Blocked
    /\ at[r] = "run"
    /\ frames' = [frames EXCEPT ![Frame(r)].output = Network(frames[Frame(r)].input)]
    /\ at' = [at EXCEPT ![r] = "output"]
    /\ UNCHANGED <<request, response>>
    /\ UNCHANGED procVars

\* Lines 45-46: process_output runs without an await; either it returns
\* the boxes or it never returns.
Process(r) ==
    /\ ~Blocked
    /\ at[r] = "output"
    /\ LET f == frames[Frame(r)]
           out == ProcessOutput(f.output, f.img_width, f.img_height)
       IN  IF out.returns
           THEN /\ frames' = [frames EXCEPT ![Frame(r)].boxes = out.value]
                /\ at' = [at EXCEPT ![r] = "boxes"]
           ELSE /\ frames' = frames
                /\ at' = [at EXCEPT ![r] = "hung"]
    /\ UNCHANGED <<request, response>>
    /\ UNCHANGED procVars

\* Lines 28-29: res.json(boxes).
Respond(r) ==
    /\ ~Blocked
    /\ at[r] = "boxes"
    /\ response' = [response EXCEPT ![r] = frames[Frame(r)].boxes]
    /\ at' = [at EXCEPT ![r] = "done"]
    /\ UNCHANGED <<request, frames>>
    /\ UNCHANGED procVars

NextCalls ==
    \E r \in Requests :
        \/ Post(r)
        \/ Metadata(r)
        \/ Prepare(r)
        \/ Create(r)
        \/ Run(r)
        \/ Process(r)
        \/ Respond(r)

(***************************************************************************)
(* Initial states.                                                         *)
(***************************************************************************)

NoCalls ==
    /\ request = [r \in Requests |-> NoImage]
    /\ at = [r \in Requests |-> "idle"]
    /\ frames = [r \in Requests |-> NoLocals]
    /\ response = [r \in Requests |-> <<>>]

XcVals == {0, 1, 2}

YcVals == {5}

WVals == {-10, 0, 10}

HVals == {10}

\* Scores of a cell in which only the first class can fire.
FirstClassScores == {[c \in Classes |-> IF c = 0 THEN s ELSE 0] : s \in {5, 9}}

\* Cells for the suppression: overlapping, disjoint, empty and inverted boxes.
GeometryCells ==
    [geom : XcVals \X YcVals \X WVals \X HVals, scores : FirstClassScores]

\* Scores of a cell in which class k scores hi and every other class lo.
PeakedScores ==
    {[c \in Classes |-> IF c = k THEN p[1] ELSE p[2]] :
        k \in Classes, p \in {<<9, 5>>, <<5, 5>>, <<4, 0>>}}

\* Cells for the decoding: every class can win, tie or stay below 0.5.
ScoreCells ==
    [geom : {0, 2} \X YcVals \X {10} \X HVals, scores : PeakedScores]

\* process_output is called on a raw output of geometry cells.
Init ==
    /\ output \in {Flatten(cell) : cell \in [Cells -> GeometryCells]}
    /\ img_width = 2
    /\ img_height = 1
    /\ pc = "decode"
    /\ boxes = <<>>
    /\ result = <<>>
    /\ NoCalls

\* Original image sizes, as <<width, height>>.
ImageSizes == {<<2, 1>>, <<1, 3>>}

\* process_output is called on a raw output of score cells.
InitScores ==
    /\ output \in {Flatten(cell) : cell \in [Cells -> ScoreCells]}
    /\ \E size \in ImageSizes :
         /\ img_width = size[1]
         /\ img_height = size[2]
    /\ pc = "decode"
    /\ boxes = <<>>
    /\ result = <<>>
    /\ NoCalls

\* The server is listening and no request has arrived.
InitCalls ==
    /\ output = <<>>
    /\ img_width = 0
    /\ img_height = 0
    /\ pc = "off"
    /\ boxes = <<>>
    /\ result = <<>>
    /\ NoCalls

Spec == Init /\ [][Next]_vars

SpecScores == InitScores /\ [][Next]_vars

SpecCalls == InitCalls /\ [][NextCalls]_vars

(***************************************************************************)
(* Properties.                                                             *)
(***************************************************************************)

Range(seq) == {seq[i] : i \in 1 .. Len(seq)}

\* The boxes decoded from the raw output, in cell order, and sorted.
Decoded == DecodeFrom(output, img_width, img_height, 0, <<>>)

Candidates == SortBoxes(Decoded)

\* The scores of a cell, its greatest score and the lowest class that has it,
\* read off the raw output.
ScoreOf(index, c) == output[NumCells * (c + 4) + index]

MaxScore(index) ==
    CHOOSE s \in {ScoreOf(index, c) : c \in Classes} :
        \A c \in Classes : s >= ScoreOf(index, c)

LowestArgMax(index) ==
    LET m == MaxScore(index)
    IN  CHOOSE c \in Classes :
            /\ ScoreOf(index, c) = m
            /\ \A d \in Classes : d < c => ScoreOf(index, d) < m

\* The corners the code computes for a cell, as <<x1, y1, x2, y2>>.
Corners(index) ==
    << (2 * output[index] - output[2 * NumCells + index]) * img_width,
       (2 * output[NumCells + index] - output[3 * NumCells + index]) * img_height,
       (2 * output[index] + output[2 * NumCells + index]) * img_width,
       (2 * output[NumCells + index] + output[3 * NumCells + index]) * img_height >>

PositiveArea(box) == box[1] < box[3] /\ box[2] < box[4]

\* A call that returns step by step returns what ProcessOutput gives.
StepsAgreeWithFunction ==
    pc = "done" =>
        ProcessOutput(output, img_width, img_height) = [returns |-> TRUE, value |-> result]

\* C1: no two distinct boxes of the returned list have an IoU, as iou()
\* computes it, of 0.7 or more.
NoOverlapInResult ==
    pc = "done" =>
        \A i, j \in 1 .. Len(result) :
            i # j => ~AtLeastTenths(iou(result[i], result[j]), IouThreshold)

\* C1 witness: from candidates of positive area a call has returned two boxes
\* after suppressing one that overlapped the first of them by 0.7 or more.
OverlapSuppressed ==
    /\ pc = "done"
    /\ Len(result) >= 2
    /\ \A c \in Range(Candidates) : PositiveArea(c)
    /\ \E c \in Range(Candidates) :
         /\ c \notin Range(result)
         /\ AtLeastTenths(iou(result[1], c), IouThreshold)

\* C2: every candidate and every returned box has confidence >= 0.5; the
\* candidates are as many as the cells whose greatest score is >= 0.5; and a
\* returned box carries the greatest score of the cell it was decoded from.
ConfidenceAtLeastThreshold ==
    LET greatest == [index \in Cells |-> MaxScore(index)]
    IN  /\ \A b \in Range(boxes) \cup Range(result) : b[6] >= ProbThreshold
        /\ (pc = "while" /\ result = <<>>) =>
              Len(boxes) =
                  Cardinality({index \in Cells : greatest[index] >= ProbThreshold})
        /\ \A b \in Range(result) :
              \E index \in Cells :
                  /\ greatest[index] = b[6]
                  /\ Corners(index) = SubSeq(b, 1, 4)

\* C2 witness: a call has returned a box of confidence exactly 0.5 while a
\* cell whose greatest score is 0.4 produced no candidate.
ThresholdCaseReturned ==
    /\ pc = "done"
    /\ \E b \in Range(result) : b[6] = ProbThreshold
    /\ \E index \in Cells :
         /\ MaxScore(index) = 4
         /\ \A b \in Range(Candidates) : Corners(index) # SubSeq(b, 1, 4)

\* C3: every emitted box has x1 <= x2 and y1 <= y2.
CornersOrdered ==
    \A b \in Range(result) : b[1] <= b[3] /\ b[2] <= b[4]

\* C4: the loop runs at most K iterations for K candidates (each iteration
\* pushes one box to result).
IterationsAtMostCandidates ==
    Len(result) <= Len(Decoded)

\* C5: when the union area of two boxes is zero, iou returns 0.  Stated of
\* the calls iou(boxes[0], box) the filter makes.
ZeroUnionGivesZero ==
    pc = "while" =>
        \A i \in 1 .. Len(boxes) :
            union(boxes[1], boxes[i], intersection(boxes[1], boxes[i])) = 0
                => IsZero(iou(boxes[1], boxes[i]))

\* C6: the returned list is in descending order of confidence, and two boxes
\* of equal confidence come from cells in increasing index order.
SortedStable ==
    pc = "done" =>
        \A i, j \in 1 .. Len(result) :
            i < j =>
                /\ result[i][6] >= result[j][6]
                /\ result[i][6] = result[j][6] =>
                      \E ci, cj \in Cells :
                          /\ ci < cj
                          /\ Qualifies(BestClass(output, ci)[2])
                          /\ Qualifies(BestClass(output, cj)[2])
                          /\ DecodeBox(output, ci, img_width, img_height) = result[i]
                          /\ DecodeBox(output, cj, img_width, img_height) = result[j]

\* C6 witness: a call has returned three boxes, the first of greater
\* confidence than the second, the second and third of equal confidence.
SortedWithTieReturned ==
    /\ pc = "done"
    /\ Len(result) = 3
    /\ result[1][6] > result[2][6]
    /\ result[2][6] = result[3][6]

\* C7: sorting and suppressing the returned list again returns it unchanged.
SuppressIdempotent ==
    pc = "done" => Suppress(result) = [returns |-> TRUE, value |-> result]

\* C7 witness: a call has returned two boxes of equal confidence after
\* suppressing a third candidate that overlaps both of them by 0.7 or more.
ChainSuppressedReturned ==
    /\ pc = "done"
    /\ Len(result) = 2
    /\ result[1][6] = result[2][6]
    /\ \E c \in Range(Candidates) :
         /\ c \notin Range(result)
         /\ AtLeastTenths(iou(result[1], c), IouThreshold)
         /\ AtLeastTenths(iou(result[2], c), IouThreshold)

\* What detect_objects_on_image returns for an upload when it runs alone.
DetectAlone(image) ==
    ProcessOutput(Network(PlanarInput(image.pixels)), image.width, image.height)

\* C8: a call that has computed its boxes, and the response it gives, hold
\* exactly the boxes the call returns when it runs alone.
CallsDoNotInterfere ==
    \A r \in Requests :
        /\ at[r] = "boxes" =>
              [returns |-> TRUE, value |-> frames[Frame(r)].boxes] = DetectAlone(request[r])
        /\ at[r] = "done" =>
              [returns |-> TRUE, value |-> response[r]] = DetectAlone(request[r])

\* C8 witness: two calls for different uploads are in flight together, one
\* has responded, the other has computed different boxes and not responded.
TwoCallsInFlight ==
    \E r, q \in Requests :
        /\ r # q
        /\ at[r] = "done"
        /\ at[q] = "boxes"
        /\ request[r] # request[q]
        /\ response[r] # frames[Frame(q)].boxes
        /\ response[r] # <<>>

\* C9: a candidate absent from the returned list has an IoU of 0.7 or more
\* with a returned box that precedes it in the sorted order.
DroppedOnlyForCause ==
    pc = "done" =>
        \A k \in 1 .. Len(Candidates) :
            Candidates[k] \notin Range(result) =>
                \E m \in 1 .. (k - 1) :
                    /\ Candidates[m] \in Range(result)
                    /\ AtLeastTenths(iou(Candidates[m], Candidates[k]), IouThreshold)

\* C10: for every cell of the raw output a call starts with, the class chosen
\* is the lowest class that has the greatest score and the confidence is that
\* score; every candidate and every returned box carries the label of that
\* class and that score.
LowestMaxClassChosen ==
    /\ pc = "decode" =>
          \A index \in Cells :
              BestClass(output, index) = <<LowestArgMax(index), MaxScore(index)>>
    /\ \A b \in Range(boxes) \cup Range(result) :
          \E index \in Cells :
              /\ MaxScore(index) = b[6]
              /\ b[6] >= ProbThreshold
              /\ Corners(index) = SubSeq(b, 1, 4)
              /\ b[5] = yolo_classes[LowestArgMax(index) + 1]

\* C10 witness: a call has returned the box of a cell in which two classes
\* tie at the greatest score, and the box of a cell whose second class wins.
TieAndLaterClassReturned ==
    /\ pc = "done"
    /\ \E index \in Cells :
         /\ ScoreOf(index, 0) = ScoreOf(index, 1)
         /\ MaxScore(index) = ScoreOf(index, 0)
         /\ Corners(index) \o <<"person", MaxScore(index)>> \in Range(result)
    /\ \E index \in Cells :
         /\ ScoreOf(index, 1) > ScoreOf(index, 0)
         /\ MaxScore(index) = ScoreOf(index, 1)
         /\ Corners(index) \o <<"bicycle", MaxScore(index)>> \in Range(result)

====
